---- MODULE Spec2Model ----
(***************************************************************************)
(* A model of the LRU cache of src/main.rs: the struct LruCache            *)
(* (capacity, map, list), its operations new, get, refresh and set, and    *)
(* the byte codecs (TryIntoBytes / TryFromBytes) for String, i32, Person.  *)
(***************************************************************************)
EXTENDS Integers, Sequences, FiniteSets, TLC

(***************************************************************************)
(* Bounds and input sets                                                   *)
(***************************************************************************)
MaxCap == 3
MaxStrLen == 2
MaxRawLen == 5

Keys == {"key1", "key2", "key3", "key4"}

\* A String is a sequence of Unicode scalar values, an i32 an integer.
StringValue(s) == [type |-> "String", s |-> s, n |-> 0]
I32Value(n) == [type |-> "i32", s |-> <<>>, n |-> n]
\* a value of a caller's type whose try_into_bytes returns Err
FallibleValue == [type |-> "Fallible", s |-> <<>>, n |-> 0]
NoValue == [type |-> "none", s |-> <<>>, n |-> 0]
\* struct Person { name, age }
PersonValue(name, age) == [type |-> "Person", s |-> name, n |-> age]

\* "h" followed by U+00E9; -2
Values == {StringValue(<<104, 233>>), I32Value(-2)}

(***************************************************************************)
(* Helpers for Vec and HashMap                                             *)
(***************************************************************************)
Range(s) == {s[i] : i \in 1..Len(s)}

\* Vec::remove(i), 1-based here
VecRemove(s, i) == SubSeq(s, 1, i - 1) \o SubSeq(s, i + 1, Len(s))

\* Iterator::position, 1-based here, 0 for None
Position(s, key) ==
  IF key \in Range(s)
  THEN CHOOSE i \in 1..Len(s) : s[i] = key /\ \A j \in 1..(i - 1) : s[j] # key
  ELSE 0

\* HashMap::remove
MapRemove(m, key) == [k \in DOMAIN m \ {key} |-> m[k]]

\* HashMap::insert
MapInsert(m, key, bytes) ==
  [k \in DOMAIN m \cup {key} |-> IF k = key THEN bytes ELSE m[k]]

(***************************************************************************)
(* Codecs                                                                  *)
(***************************************************************************)
Ok(bytes) == [ok |-> TRUE, bytes |-> bytes]
Err == [ok |-> FALSE, bytes |-> <<>>]

Utf8Char_latin1(cp) ==
  IF cp < 256 THEN <<cp>>
  ELSE IF cp < 2048 THEN <<192 + (cp \div 64), 128 + (cp % 64)>>
  ELSE IF cp < 65536
       THEN <<224 + (cp \div 4096), 128 + ((cp \div 64) % 64), 128 + (cp % 64)>>
  ELSE <<240 + (cp \div 262144), 128 + ((cp \div 4096) % 64),
         128 + ((cp \div 64) % 64), 128 + (cp % 64)>>

\* the UTF-8 encoding of one scalar value
Utf8Char(cp) ==
  IF cp < 128 THEN <<cp>>
  ELSE IF cp < 2048 THEN <<192 + (cp \div 64), 128 + (cp % 64)>>
  ELSE IF cp < 65536
       THEN <<224 + (cp \div 4096), 128 + ((cp \div 64) % 64), 128 + (cp % 64)>>
  ELSE <<240 + (cp \div 262144), 128 + ((cp \div 4096) % 64),
         128 + ((cp \div 64) % 64), 128 + (cp % 64)>>

\* String::into_bytes
RECURSIVE into_bytes(_)
into_bytes(s) ==
  IF s = <<>> THEN <<>> ELSE Utf8Char(Head(s)) \o into_bytes(Tail(s))

String_try_into_bytes(s) == Ok(into_bytes(s))

\* i32::to_be_bytes
to_be_bytes(n) ==
  <<(n \div 16777216) % 256, (n \div 65536) % 256, (n \div 256) % 256, n % 256>>

i32_try_into_bytes_le(n) ==
  Ok(<<n % 256, (n \div 256) % 256, (n \div 65536) % 256, (n \div 16777216) % 256>>)

i32_try_into_bytes(n) == Ok(to_be_bytes(n))

\* Person: the bytes of the name, then the bytes of the age
Person_try_into_bytes(name, age) ==
  IF ~String_try_into_bytes(name).ok THEN Err
  ELSE IF ~i32_try_into_bytes(age).ok THEN Err
  ELSE Ok(String_try_into_bytes(name).bytes \o i32_try_into_bytes(age).bytes)

\* the encode capability as set uses it
try_into_bytes(value) ==
  CASE value.type = "String" -> String_try_into_bytes(value.s)
    [] value.type = "i32" -> i32_try_into_bytes(value.n)
    [] value.type = "Person" -> Person_try_into_bytes(value.s, value.n)
    [] OTHER -> Err

\* the result of a decode: Ok(value), Err(ConversionFailed) or a panic
Decoded(value) == [status |-> "Ok", val |-> value]
ConversionFailed == [status |-> "Err", val |-> NoValue]
Panic == [status |-> "Panic", val |-> NoValue]

IsCont(b) == b \in 128..191

\* String::from_utf8: the scalar values of a byte sequence, <<-1>> when the
\* bytes are not valid UTF-8
RECURSIVE from_utf8(_)
from_utf8(b) ==
  IF b = <<>> THEN <<>>
  ELSE
    LET b1 == b[1]
        n == IF b1 < 128 THEN 1
             ELSE IF b1 \in 194..223 THEN 2
             ELSE IF b1 \in 224..239 THEN 3
             ELSE IF b1 \in 240..244 THEN 4
             ELSE 0
        wellFormed == /\ n > 0
                      /\ Len(b) >= n
                      /\ \A i \in 2..n : IsCont(b[i])
        cp == CASE n = 1 -> b1
                [] n = 2 -> (b1 - 192) * 64 + (b[2] - 128)
                [] n = 3 -> (b1 - 224) * 4096 + (b[2] - 128) * 64 + (b[3] - 128)
                [] OTHER -> (b1 - 240) * 262144 + (b[2] - 128) * 4096
                            + (b[3] - 128) * 64 + (b[4] - 128)
        scalar == CASE n = 1 -> TRUE
                    [] n = 2 -> TRUE
                    [] n = 3 -> cp >= 2048 /\ cp \notin 55296..57343
                    [] OTHER -> cp \in 65536..1114111
        rest == from_utf8(SubSeq(b, n + 1, Len(b)))
    IN IF wellFormed /\ scalar /\ rest # <<-1>> THEN <<cp>> \o rest
       ELSE <<-1>>

String_try_from_bytes(bytes) ==
  IF from_utf8(bytes) = <<-1>> THEN ConversionFailed
  ELSE Decoded(StringValue(from_utf8(bytes)))

\* i32::from_be_bytes
from_be_bytes(b) ==
  (IF b[1] >= 128 THEN b[1] - 256 ELSE b[1]) * 16777216
  + b[2] * 65536 + b[3] * 256 + b[4]

\* bytes.try_into().unwrap() panics unless there are exactly 4 bytes
i32_try_from_bytes(bytes) ==
  IF Len(bytes) # 4 THEN Panic ELSE Decoded(I32Value(from_be_bytes(bytes)))

\* Person: the name from all bytes but the last, the age from the last
\* byte; bytes.len() - 1 has no value for an empty input and the slice panics
Person_try_from_bytes(bytes) ==
  IF Len(bytes) = 0 THEN Panic
  ELSE
    LET name == String_try_from_bytes(SubSeq(bytes, 1, Len(bytes) - 1))
        age == i32_try_from_bytes(SubSeq(bytes, Len(bytes), Len(bytes)))
    IN IF name.status # "Ok" THEN name
       ELSE IF age.status # "Ok" THEN age
       ELSE Decoded(PersonValue(name.val.s, age.val.n))

\* the decode capability for the type a caller asks for
try_from_bytes(type, bytes) ==
  CASE type = "String" -> String_try_from_bytes(bytes)
    [] type = "i32" -> i32_try_from_bytes(bytes)
    [] type = "Person" -> Person_try_from_bytes(bytes)
    [] OTHER -> ConversionFailed

(***************************************************************************)
(* The cache                                                               *)
(***************************************************************************)
VARIABLES capacity, map, list, last, hist, lastSet, phase, codec

vars == <<capacity, map, list, last, hist, lastSet, phase, codec>>

Cache == [capacity |-> capacity, map |-> map, list |-> list]

\* HashMap::new
EmptyMap == [k \in {} |-> <<>>]

new(max_size) == [capacity |-> max_size, map |-> EmptyMap, list |-> <<>>]

\* Option<V> as get returns it
None == [tag |-> "None", bytes |-> <<>>]
Some(bytes) == [tag |-> "Some", bytes |-> bytes]

refresh_noop(l, key) == l

refresh_front(l, key) ==
  LET item_position == Position(l, key)
  IN IF item_position # 0
     THEN <<key>> \o VecRemove(l, item_position)
     ELSE l

refresh_first(l, key) ==
  LET item_position == Position(l, key)
  IN IF item_position # 0
     THEN Append(VecRemove(l, 1), key)
     ELSE l

\* refresh: the list after self.refresh(key)
refresh(l, key) ==
  LET item_position == Position(l, key)
  IN IF item_position # 0
     THEN Append(VecRemove(l, item_position), key)
     ELSE l

get_default(cache, key) ==
  IF key \notin DOMAIN cache.map
  THEN [cache |-> cache, ret |-> Some(<<>>)]
  ELSE [cache |-> [cache EXCEPT !.list = refresh(cache.list, key)],
        ret |-> Some(cache.map[key])]

\* get: the cache after the call and the value returned
get(cache, key) ==
  IF key \notin DOMAIN cache.map
  THEN [cache |-> cache, ret |-> None]
  ELSE [cache |-> [cache EXCEPT !.list = refresh(cache.list, key)],
        ret |-> Some(cache.map[key])]

set_track_gt(cache, key) ==
  LET full == Len(cache.list) > cache.capacity
      oldest_key == cache.list[1]
      l == IF full THEN VecRemove(cache.list, 1) ELSE cache.list
      m == IF full THEN MapRemove(cache.map, oldest_key) ELSE cache.map
  IN [cache EXCEPT !.list = Append(l, key), !.map = m]

set_track_keep_map(cache, key) ==
  LET full == Len(cache.list) = cache.capacity
      l == IF full THEN VecRemove(cache.list, 1) ELSE cache.list
  IN [cache EXCEPT !.list = Append(l, key)]

set_track_newest(cache, key) ==
  LET full == Len(cache.list) = cache.capacity
      oldest_key == cache.list[Len(cache.list)]
      l == IF full THEN VecRemove(cache.list, Len(cache.list)) ELSE cache.list
      m == IF full THEN MapRemove(cache.map, oldest_key) ELSE cache.map
  IN [cache EXCEPT !.list = Append(l, key), !.map = m]

\* set, line 97: Vec::remove(0) panics on an empty list, which is the list
\* of a cache of capacity 0
set_panics(cache) ==
  Len(cache.list) = cache.capacity /\ Len(cache.list) = 0

\* set, lines 96-101: make room when the list is at capacity, push the key
set_track(cache, key) ==
  LET full == Len(cache.list) = cache.capacity
      oldest_key == cache.list[1]
      l == IF full THEN VecRemove(cache.list, 1) ELSE cache.list
      m == IF full THEN MapRemove(cache.map, oldest_key) ELSE cache.map
  IN [cache EXCEPT !.list = Append(l, key), !.map = m]

set_keep_old(cache, key, bytes) ==
  LET c == set_track(cache, key)
  IN [c EXCEPT !.map = IF key \in DOMAIN c.map THEN c.map
                       ELSE MapInsert(c.map, key, bytes)]

\* set with the encoded value: the cache after the call
set(cache, key, bytes) ==
  LET c == set_track(cache, key)
  IN [c EXCEPT !.map = MapInsert(c.map, key, bytes)]

(***************************************************************************)
(* History variables.  last describes the latest call: what it was, what   *)
(* it returned and what the cache looked like when it was made.  hist      *)
(* orders every key ever accessed (a successful set or a get that found    *)
(* the key) by its latest access, oldest first.  lastSet is the value of   *)
(* the latest successful set of each key that has been in the store since. *)
(* phase follows the scenario "fill with distinct keys, read the oldest,   *)
(* set a new key".                                                         *)
(***************************************************************************)
Touch(h, key) ==
  IF key \in Range(h) THEN Append(VecRemove(h, Position(h, key)), key)
  ELSE Append(h, key)

\* the least recently accessed key among those of the store
Lru(h, m) ==
  IF DOMAIN m \cap Range(h) = {} THEN {}
  ELSE {h[CHOOSE i \in 1..Len(h) :
            h[i] \in DOMAIN m /\ \A j \in 1..(i - 1) : h[j] \notin DOMAIN m]}

\* lastSet follows a key while it is in the store
Forget(ls, m) == [k \in Keys |-> IF k \in DOMAIN m THEN ls[k] ELSE NoValue]

NoCall ==
  [op |-> "new", key |-> "", val |-> NoValue, ret |-> None, status |-> "Ok",
   present |-> FALSE, size |-> 0, evicted |-> {}, lru |-> {},
   changed |-> FALSE, replaced |-> FALSE, after |-> NoValue]

\* codec describes a conversion made outside the cache: the value or the
\* raw bytes it starts from, the type asked for and the results
NoCodec ==
  [step |-> "idle", src |-> "none", type |-> "none", val |-> NoValue,
   bytes |-> <<>>, out |-> [status |-> "none", val |-> NoValue]]

Init ==
  /\ codec = NoCodec
  /\ capacity \in 1..MaxCap
  /\ map = new(capacity).map
  /\ list = new(capacity).list
  /\ last = NoCall
  /\ hist = <<>>
  /\ lastSet = [k \in Keys |-> NoValue]
  /\ phase = "fill"

Running == last.status # "Abort"

\* cache.set(key, &value) with a value whose encoding succeeds
Set(key, value) ==
  LET enc == try_into_bytes(value)
      c == set(Cache, key, enc.bytes)
  IN /\ Running
     /\ ~set_panics(Cache)
     /\ enc.ok
     /\ map' = c.map
     /\ list' = c.list
     /\ last' = [op |-> "set", key |-> key, val |-> value, ret |-> None,
                 status |-> "Ok",
                 present |-> key \in DOMAIN map,
                 size |-> Cardinality(DOMAIN map),
                 evicted |-> DOMAIN map \ DOMAIN c.map,
                 lru |-> Lru(hist, map),
                 changed |-> <<c.map, c.list>> # <<map, list>>,
                 replaced |-> key \in DOMAIN map /\ map[key] # enc.bytes,
                 after |-> NoValue]
     /\ hist' = Touch(hist, key)
     /\ lastSet' = Forget([lastSet EXCEPT ![key] = value], c.map)
     /\ phase' = IF key \in Range(hist) THEN "other"
                 ELSE IF phase = "fill" THEN "fill"
                 ELSE IF phase = "promoted" THEN "evicted"
                 ELSE "other"
     /\ UNCHANGED <<capacity, codec>>

\* cache.get(key)
Get(key) ==
  /\ Running
  /\ LET r == get(Cache, key)
     IN /\ map' = r.cache.map
        /\ list' = r.cache.list
        /\ last' = [op |-> "get", key |-> key, val |-> NoValue, ret |-> r.ret,
                    status |-> "Ok",
                    present |-> key \in DOMAIN map,
                    size |-> Cardinality(DOMAIN map),
                    evicted |-> DOMAIN map \ DOMAIN r.cache.map,
                    lru |-> Lru(hist, map),
                    changed |-> <<r.cache.map, r.cache.list>> # <<map, list>>,
                    replaced |-> /\ last.op = "set" /\ last.status = "Ok"
                                 /\ last.key = key /\ last.replaced,
                    after |-> IF last.op = "set" /\ last.status = "Ok"
                                 /\ last.key = key
                              THEN last.val ELSE NoValue]
  /\ hist' = IF key \in DOMAIN map THEN Touch(hist, key) ELSE hist
  /\ phase' = IF phase = "fill" /\ hist # <<>> /\ Len(hist) = capacity
                 /\ key = hist[1]
              THEN "promoted" ELSE "other"
  /\ UNCHANGED <<capacity, lastSet, codec>>

Next ==
  \/ \E key \in Keys, value \in Values : Set(key, value)
  \/ \E key \in Keys : Get(key)

Spec == Init /\ [][Next]_vars

\* cache.set(key, &value) with a value whose encoding fails: the encoding is
\* an argument of the insert at line 102, so lines 96-101 have run; the
\* failure reaches the caller as an error or ends the program
SetEncodeFails(key, value, status) ==
  /\ Running
  /\ ~set_panics(Cache)
  /\ ~try_into_bytes(value).ok
  /\ LET c == set_track(Cache, key)
     IN /\ map' = c.map
        /\ list' = c.list
        /\ last' = [op |-> "set", key |-> key, val |-> value, ret |-> None,
                    status |-> status,
                    present |-> key \in DOMAIN map,
                    size |-> Cardinality(DOMAIN map),
                    evicted |-> DOMAIN map \ DOMAIN c.map,
                    lru |-> Lru(hist, map),
                    changed |-> <<c.map, c.list>> # <<map, list>>,
                    replaced |-> FALSE,
                    after |-> NoValue]
  /\ lastSet' = Forget(lastSet, set_track(Cache, key).map)
  /\ phase' = "other"
  /\ UNCHANGED <<capacity, hist, codec>>

\* the values of a caller whose type has a fallible encoding
FallibleValues == {I32Value(-2), FallibleValue}

NextFallible ==
  \/ \E key \in Keys, value \in FallibleValues : Set(key, value)
  \/ \E key \in Keys, value \in FallibleValues, status \in {"Err", "Abort"} :
        SetEncodeFails(key, value, status)
  \/ \E key \in Keys : Get(key)

SpecFallible == Init /\ [][NextFallible]_vars

(***************************************************************************)
(* Caches of capacity 0 and 1: new accepts any usize                       *)
(***************************************************************************)
InitZero ==
  /\ codec = NoCodec
  /\ capacity \in 0..1
  /\ map = new(capacity).map
  /\ list = new(capacity).list
  /\ last = NoCall
  /\ hist = <<>>
  /\ lastSet = [k \in Keys |-> NoValue]
  /\ phase = "fill"

\* cache.set(key, &value) on a cache whose list is empty and at capacity:
\* the program panics at line 97
SetPanics(key, value) ==
  /\ Running
  /\ set_panics(Cache)
  /\ last' = [op |-> "set", key |-> key, val |-> value, ret |-> None,
              status |-> "Abort",
              present |-> key \in DOMAIN map,
              size |-> Cardinality(DOMAIN map),
              evicted |-> {}, lru |-> Lru(hist, map),
              changed |-> FALSE, replaced |-> FALSE, after |-> NoValue]
  /\ phase' = "other"
  /\ UNCHANGED <<capacity, map, list, hist, lastSet, codec>>

NextZero ==
  \/ \E key \in Keys, value \in Values : Set(key, value)
  \/ \E key \in Keys, value \in Values : SetPanics(key, value)
  \/ \E key \in Keys : Get(key)

SpecZero == InitZero /\ [][NextZero]_vars

(***************************************************************************)
(* The codecs on their own: a value is encoded and the bytes are decoded   *)
(* to the type of the value, or raw bytes are decoded to a type.           *)
(***************************************************************************)
SeqsUpTo(S, n) == UNION {[1..k -> S] : k \in 0..n}

\* scalar values with encodings of 1, 2, 3 and 4 bytes, with the first and
\* the last of each length and the neighbours of the surrogates
Chars == {0, 65, 127, 128, 233, 2047, 2048, 8364, 55295, 57344, 65535,
          65536, 128512, 1114111}
Strings == SeqsUpTo(Chars, MaxStrLen)
I32s == {0, 1, -1, -2, 20, 258, 65535, 16777216, -16777216,
         2147483647, -2147483647 - 1}
CodecValues ==
  {StringValue(s) : s \in Strings}
  \cup {I32Value(n) : n \in I32s}
  \cup {PersonValue(s, n) : s \in SeqsUpTo(Chars, 1), n \in {20, 21, -1}}
RawBytes == SeqsUpTo({0, 65, 254, 255}, MaxRawLen)
Types == {"String", "i32", "Person"}

InitCodec ==
  /\ capacity = 1
  /\ map = new(capacity).map
  /\ list = new(capacity).list
  /\ last = NoCall
  /\ hist = <<>>
  /\ lastSet = [k \in Keys |-> NoValue]
  /\ phase = "fill"
  /\ \/ \E v \in CodecValues :
          codec = [NoCodec EXCEPT !.step = "value", !.src = "value",
                                  !.type = v.type, !.val = v]
     \/ \E b \in RawBytes, t \in Types :
          codec = [NoCodec EXCEPT !.step = "bytes", !.src = "raw",
                                  !.type = t, !.bytes = b]

\* value.try_into_bytes()
Encode ==
  /\ codec.step = "value"
  /\ try_into_bytes(codec.val).ok
  /\ codec' = [codec EXCEPT !.step = "bytes",
                            !.bytes = try_into_bytes(codec.val).bytes]
  /\ UNCHANGED <<capacity, map, list, last, hist, lastSet, phase>>

\* T::try_from_bytes(bytes)
Decode ==
  /\ codec.step = "bytes"
  /\ codec' = [codec EXCEPT !.step = "done",
                            !.out = try_from_bytes(codec.type, codec.bytes)]
  /\ UNCHANGED <<capacity, map, list, last, hist, lastSet, phase>>

NextCodec == Encode \/ Decode

SpecCodec == InitCodec /\ [][NextCodec]_vars

(***************************************************************************)
(* Properties                                                              *)
(***************************************************************************)

\* C1: with capacity >= 1, in every reachable state the store holds at most
\* capacity keys and the recency list is at most capacity long.
CapacityInvariant ==
  /\ Cardinality(DOMAIN map) <= capacity
  /\ Len(list) <= capacity

\* a set of a key that is already present, made on a full cache
CapacityWitness ==
  /\ last.op = "set" /\ last.present /\ last.size = capacity
  /\ capacity >= 2
  /\ Cardinality(DOMAIN map) = capacity /\ Len(list) = capacity

\* C2: the recency list holds exactly the keys of the store, each once.
OrderMatchesStore ==
  /\ Range(list) = DOMAIN map
  /\ Cardinality(Range(list)) = Len(list)

\* C3: a key that a set removes from the store is the least recently
\* accessed key of the store as it was before the call.
EvictsLeastRecentlyUsed ==
  last.op = "set" => last.evicted \subseteq last.lru

\* C4: a key leaves the store only in a set of a key that was not present,
\* made while the store held capacity keys.
EvictionOnlyByNewKeyWhenFull ==
  last.evicted # {} =>
    /\ last.op = "set"
    /\ ~last.present
    /\ last.key \notin last.evicted
    /\ last.size = capacity

\* C5: while every call so far was a set of a fresh key, the first key stays
\* in the store through the first capacity sets, and set number capacity + 1
\* removes exactly that key.
EvictionOrder ==
  phase = "fill" =>
    /\ Len(hist) <= capacity =>
         DOMAIN map = Range(hist) /\ last.evicted = {}
    /\ Len(hist) = capacity + 1 =>
         /\ DOMAIN map = Range(hist) \ {hist[1]}
         /\ Cardinality(DOMAIN map) = capacity
         /\ last.evicted = {hist[1]}

EvictionOrderWitness ==
  /\ phase = "fill" /\ capacity >= 2 /\ Len(hist) = capacity + 1
  /\ last.evicted = {hist[1]}

\* C6: after filling the cache with distinct keys, reading the oldest key
\* and setting a new key, the key evicted is the oldest after the read (the
\* second oldest before it) and the key read is still present.  In hist the
\* key read is at position capacity, the new key follows it.
GetPromotes ==
  phase = "evicted" =>
    /\ last.evicted = {hist[1]}
    /\ DOMAIN map = Range(hist) \ {hist[1]}
    /\ capacity >= 2 =>
         hist[capacity] \in DOMAIN map /\ hist[capacity] # hist[1]

GetPromotesWitness ==
  /\ phase = "evicted" /\ capacity = 2
  /\ hist[2] \in DOMAIN map /\ hist[3] \in DOMAIN map
  /\ hist[1] \notin DOMAIN map

AbsentGetReturnsNone ==
  (last.op = "get" /\ ~last.present) =>
    last.ret = None /\ last.status = "Ok"

\* the key was set and has been evicted
AbsentGetWitness ==
  /\ last.op = "get" /\ ~last.present
  /\ last.key \in Range(hist)
  /\ last.ret = None

\* C10: a set whose encoding fails leaves the store and the recency list
\* as they were and evicts nothing.
AtomicEncodeFailure ==
  (last.op = "set" /\ last.status # "Ok") =>
    ~last.changed /\ last.evicted = {}

\* C11: a get that finds the key with bytes that do not decode to the type
\* asked for (here String) yields a ConversionFailed error, not None, not
\* Some and not a panic.
DecodeFailureIsError ==
  (/\ last.op = "get" /\ last.present
   /\ try_from_bytes("String", map[last.key]).status # "Ok") =>
    last.ret.tag = "Err" /\ last.status = "Ok"

\* C12: decoding the encoding of a String or of an i32 gives the value back,
\* and an i32 is encoded as 4 bytes, most significant first, in two's
\* complement.
RoundTrip ==
  /\ (codec.step = "done" /\ codec.src = "value"
      /\ codec.type \in {"String", "i32"}) =>
        codec.out = Decoded(codec.val)
  /\ (codec.step \in {"bytes", "done"} /\ codec.src = "value"
      /\ codec.type = "i32") =>
        /\ Len(codec.bytes) = 4
        /\ \A i \in 1..4 : codec.bytes[i] \in 0..255
        /\ codec.bytes[1] >= 128 <=> codec.val.n < 0
        /\ codec.val.n =
             (IF codec.val.n < 0 THEN codec.bytes[1] - 256 ELSE codec.bytes[1])
               * 16777216
             + codec.bytes[2] * 65536 + codec.bytes[3] * 256 + codec.bytes[4]
        /\ codec.val.n = 258 => codec.bytes = <<0, 0, 1, 2>>

\* a String with a character of several bytes has made the round trip
RoundTripWitness ==
  /\ codec.step = "done" /\ codec.src = "value" /\ codec.type = "String"
  /\ Len(codec.bytes) > Len(codec.val.s) /\ Len(codec.val.s) > 0
  /\ codec.out = Decoded(codec.val)

\* C13: decoding the encoding of a Person gives the Person back.
PersonRoundTrip ==
  (codec.step = "done" /\ codec.src = "value" /\ codec.type = "Person") =>
    codec.out = Decoded(codec.val)

\* C17: i32::try_from_bytes returns Err(ConversionFailed), and does not
\* panic, for every input that is not 4 bytes long.
I32DecodeValidatesLength ==
  (codec.step = "done" /\ codec.type = "i32" /\ Len(codec.bytes) # 4) =>
    codec.out = ConversionFailed

\* C14: a cache of capacity 0, if new accepts it, stays empty and no set on
\* it aborts.
ZeroCapacityPolicy ==
  capacity = 0 =>
    /\ last.status # "Abort"
    /\ DOMAIN map = {} /\ list = <<>>

\* C15: after a set that succeeds, and after a get that finds its key, that
\* key is the last element of the recency list.
MostRecentIsLast ==
  (\/ last.op = "set" /\ last.status = "Ok"
   \/ last.op = "get" /\ last.present) =>
    list # <<>> /\ list[Len(list)] = last.key

\* a get has moved its key to the end of a list of several keys
MostRecentIsLastWitness ==
  /\ last.op = "get" /\ last.present /\ last.changed
  /\ Cardinality(Range(list)) >= 2
  /\ list[Len(list)] = last.key

\* C16: a get leaves the capacity and the store as they are and keeps the
\* order of the other keys in the recency list; a get of an absent key
\* leaves the list as it is.
GetChangesRecencyOnly ==
  [][last'.op = "get" =>
       LET k == last'.key
           Others(l) == SelectSeq(l, LAMBDA x : x # k)
       IN /\ capacity' = capacity
          /\ map' = map
          /\ Others(list') = Others(list)
          /\ k \notin DOMAIN map => list' = list]_vars

\* a get has reordered a list of three entries or more
GetChangesRecencyOnlyWitness ==
  /\ last.op = "get" /\ last.present /\ last.changed
  /\ Len(list) >= 3 /\ Cardinality(Range(list)) >= 2
  /\ last.evicted = {}

\* C18: every key of the store occurs in the recency list.
StoreKeysTracked == DOMAIN map \subseteq Range(list)

\* the list holds a key twice and still every key of the store
StoreKeysTrackedWitness ==
  /\ Cardinality(DOMAIN map) >= 2
  /\ Len(list) > Cardinality(Range(list))
  /\ DOMAIN map \subseteq Range(list)

\* C19: a call made on a store of capacity keys leaves a store of capacity
\* keys.
FullStaysFull ==
  (last.op # "new" /\ last.size = capacity) =>
    Cardinality(DOMAIN map) = capacity

\* C20: a get of the key that the call before it got leaves the store and
\* the recency list as they are.
GetIdempotent ==
  [][(last.op = "get" /\ last'.op = "get" /\ last'.key = last.key) =>
       (map' = map /\ list' = list)]_vars

====
